---- MODULE Spec2Model ----
(***************************************************************************)
(* Model of local-mcp-proxy.cjs: the HTTP/SSE reverse proxy.               *)
(*                                                                         *)
(* One session is one inbound request with its response object and, when   *)
(* the request reaches proxySSE, its outbound (upstream) request.  Every   *)
(* Node event whose listener the program registers is one action that runs *)
(* the whole listener.  Text values (header values, body chunks, URLs) are *)
(* sequences of string tokens, so that prefix tests, substring tests and   *)
(* parsing are computed rather than assumed.                               *)
(***************************************************************************)
EXTENDS Integers, Sequences, FiniteSets, TLC

VARIABLES
    session,    \* the proxy's sessions (local-mcp-proxy.cjs)
    mcp         \* the exchange of the MCP tool server (iplan-mcp-server.js)

vars == <<session, mcp>>

-----------------------------------------------------------------------------
(* Bounds of the model *)

\* upstream response chunks delivered per session
MaxChunks == 2
\* inbound (POST) body chunks delivered per session
MaxBody == 2
\* queued chunks at which a stream's write() reports that it is full
HighWaterMark == 1

\* The model has room for two sessions; Spec drives the first one only.
Sessions == {"s1", "s2"}
Active == {"s1"}

-----------------------------------------------------------------------------
(* Text helpers *)

Str(s) == <<s>>

\* String.prototype.startsWith
StartsWith(text, prefix) ==
    /\ Len(text) >= Len(prefix)
    /\ SubSeq(text, 1, Len(prefix)) = prefix

\* String.prototype.includes, for a one-token needle
Includes(text, token) == \E i \in 1..Len(text) : text[i] = token

\* a || b  for text values: the empty text and undefined are falsy
OrElse(a, b) == IF a = <<>> THEN b ELSE a

IsPrefix(a, b) == Len(a) <= Len(b) /\ SubSeq(b, 1, Len(a)) = a

\* JSON.stringify of a flat object given as its key/value pairs in order
JSONstringify(pairs) ==
    <<"{">> \o pairs \o <<"}">>

\* obj[name] for headers kept as a set of <<name, value>> pairs; <<>> is undefined
Header(headers, name) ==
    IF \E p \in headers : p[1] = name
    THEN (CHOOSE p \in headers : p[1] = name)[2]
    ELSE <<>>

\* later values replace earlier ones of the same name
Override(headers, more) ==
    {p \in headers : ~\E q \in more : q[1] = p[1]} \cup more

-----------------------------------------------------------------------------
(* The response object (http.ServerResponse) of one inbound request *)

NewResponse ==
    [ headers        |-> {},      \* set by setHeader, not yet sent
      headersSent    |-> FALSE,
      statusCode     |-> 0,       \* the committed status; 0 before the head
      head           |-> {},      \* the header set committed with the head
      body           |-> <<>>,    \* chunks written, in order
      finished       |-> FALSE,   \* end() has been called
      writeHeadCalls |-> 0,
      endCalls       |-> 0,
      lateWrites     |-> 0 ]      \* write()/end(data) after the response finished

CorsHeaders ==
    { <<"Access-Control-Allow-Origin", Str("*")>>,
      <<"Access-Control-Allow-Methods", Str("GET,POST,OPTIONS,HEAD")>>,
      <<"Access-Control-Allow-Headers",
        Str("Content-Type, Authorization, Accept, Cache-Control")>> }

\* cors that sets the origin header only
corsOriginOnly(res) ==
    [res EXCEPT !.headers =
        Override(@, { <<"Access-Control-Allow-Origin", Str("*")>> })]

cors(res) == [res EXCEPT !.headers = Override(@, CorsHeaders)]

\* res.writeHead(status, headers): commits status and headers.  A call on a
\* response whose head is already sent is counted and leaves the head as sent
\* (Node raises ERR_HTTP_HEADERS_SENT there).
writeHead(res, status, headers) ==
    IF res.headersSent
    THEN [res EXCEPT !.writeHeadCalls = @ + 1]
    ELSE [res EXCEPT !.writeHeadCalls = @ + 1,
                     !.headersSent = TRUE,
                     !.statusCode = status,
                     !.head = Override(res.headers, headers)]

\* res.write(chunk)
write(res, chunk) ==
    IF res.finished
    THEN [res EXCEPT !.lateWrites = @ + 1]
    ELSE [res EXCEPT !.body = Append(@, chunk)]

\* res.end(data); data = <<>> is end() without an argument.  A second end()
\* is ignored by Node; a second end(data) is a write after end.
end(res, data) ==
    IF res.finished
    THEN [res EXCEPT !.endCalls = @ + 1,
                     !.lateWrites = IF data = <<>> THEN @ ELSE @ + 1]
    ELSE [res EXCEPT !.endCalls = @ + 1,
                     !.finished = TRUE,
                     !.body = IF data = <<>> THEN @ ELSE Append(@, data)]

JsonType == { <<"Content-Type", Str("application/json")>> }

-----------------------------------------------------------------------------
(* URLs *)

Schemes == {"http:", "https:", "ftp:"}
Hosts == {"up.test"}
Ports == {":8443"}
\* the number a port token denotes
PortNumber(tok) == CASE tok = ":8443" -> 8443
Paths == {"/events"}
Searches == {"?q=1"}

\* tokens that may not occur in the host of a URL
ForbiddenHostTokens == {" ", "["}

\* new URL(target): scheme "//" host [port] [path] [search].  ok = FALSE is
\* the TypeError "Invalid URL"; port 0 is the empty port string.
ParseURL(t) ==
    LET ok     == /\ Len(t) >= 3
                  /\ t[1] \in Schemes
                  /\ t[2] = "//"
                  /\ t[3] \in Hosts
        rest   == IF ok THEN SubSeq(t, 4, Len(t)) ELSE <<>>
        hasPort == rest # <<>> /\ rest[1] \in Ports
        r2     == IF hasPort THEN Tail(rest) ELSE rest
        hasPath == r2 # <<>> /\ r2[1] \in Paths
        r3     == IF hasPath THEN Tail(r2) ELSE r2
        hasSearch == r3 # <<>> /\ r3[1] \in Searches
        r4     == IF hasSearch THEN Tail(r3) ELSE r3
    IN  IF ok /\ r4 = <<>>
        THEN [ ok |-> TRUE, protocol |-> t[1], hostname |-> t[3],
               port |-> IF hasPort THEN PortNumber(rest[1]) ELSE 0,
               pathname |-> IF hasPath THEN <<r2[1]>> ELSE <<"/">>,
               search |-> IF hasSearch THEN <<r3[1]>> ELSE <<>> ]
        ELSE [ ok |-> FALSE, protocol |-> "", hostname |-> "",
               port |-> 0, pathname |-> <<>>, search |-> <<>> ]

\* new URL(req.url, `http://${req.headers.host}`): a path-absolute req.url
\* always resolves; the base fails to parse when the Host header holds a
\* forbidden host code point.
BaseParses(host) == ~\E i \in 1..Len(host) : host[i] \in ForbiddenHostTokens

\* u.searchParams.get('url'): the text after the "?url=" token; found = FALSE
\* is null
SearchParamUrl(url) ==
    IF \E i \in 1..Len(url) : url[i] = "?url="
    THEN LET i == CHOOSE j \in 1..Len(url) : url[j] = "?url="
         IN  [found |-> TRUE, value |-> SubSeq(url, i + 1, Len(url))]
    ELSE [found |-> FALSE, value |-> <<>>]

\* !target
Falsy(param) == ~param.found \/ param.value = <<>>

-----------------------------------------------------------------------------
(* The outbound request (http.ClientRequest) and its response *)

NoOptions ==
    [ method |-> "", protocol |-> "", hostname |-> "", port |-> 0,
      path |-> <<>>, headers |-> {} ]

NewUpstream ==
    [ state    |-> "none",   \* none, open, head, ended, aborting, failed
      client   |-> "none",   \* the module the request was made with
      options  |-> NoOptions,
      requests |-> 0,        \* client.request calls
      written  |-> <<>>,     \* body chunks passed to upstream.write, in order
      sent     |-> <<>>,     \* those the outbound request accepted
      flushed  |-> 0,        \* how many of them the outbound socket has taken
      endCalls |-> 0,        \* upstream.end() calls
      responded |-> FALSE,   \* the response callback has run
      ur       |-> [statusCode |-> 0, contentType |-> <<>>, others |-> {}],
      received |-> <<>> ]    \* chunks of the upstream response body, in order

HttpsPort == 443
HttpPort == 80

\* options with a fixed method
OptionsAlwaysGet(req, t) ==
    [ method   |-> "GET",
      protocol |-> t.protocol,
      hostname |-> t.hostname,
      port     |-> IF t.port # 0 THEN t.port
                   ELSE IF t.protocol = "https:" THEN HttpsPort ELSE HttpPort,
      path     |-> t.pathname \o t.search,
      headers  |->
        { <<"Accept", OrElse(Header(req.headers, "accept"), Str("text/event-stream"))>>,
          <<"Content-Type",
            OrElse(Header(req.headers, "content-type"), Str("application/json"))>>,
          <<"Cache-Control", Str("no-cache")>>,
          <<"Connection", Str("keep-alive")>>,
          <<"User-Agent", Str("mcp-inspector-local-proxy")>> } ]

\* options whose headers are the caller's own, with the fixed ones on top
OptionsPassThrough(req, t) ==
    [ method   |-> req.method,
      protocol |-> t.protocol,
      hostname |-> t.hostname,
      port     |-> IF t.port # 0 THEN t.port
                   ELSE IF t.protocol = "https:" THEN HttpsPort ELSE HttpPort,
      path     |-> t.pathname \o t.search,
      headers  |->
        Override({p \in req.headers : p[1] # "host"},
          { <<"Accept", OrElse(Header(req.headers, "accept"), Str("text/event-stream"))>>,
            <<"Content-Type",
              OrElse(Header(req.headers, "content-type"), Str("application/json"))>>,
            <<"Cache-Control", Str("no-cache")>>,
            <<"Connection", Str("keep-alive")>>,
            <<"User-Agent", Str("mcp-inspector-local-proxy")>> }) ]

\* lines 32-45
Options(req, t) ==
    [ method   |-> req.method,
      protocol |-> t.protocol,
      hostname |-> t.hostname,
      port     |-> IF t.port # 0 THEN t.port
                   ELSE IF t.protocol = "https:" THEN HttpsPort ELSE HttpPort,
      path     |-> t.pathname \o t.search,
      headers  |->
        { <<"Accept", OrElse(Header(req.headers, "accept"), Str("text/event-stream"))>>,
          <<"Content-Type",
            OrElse(Header(req.headers, "content-type"), Str("application/json"))>>,
          <<"Cache-Control", Str("no-cache")>>,
          <<"Connection", Str("keep-alive")>>,
          <<"User-Agent", Str("mcp-inspector-local-proxy")>> } ]

\* line 30
Client(t) == IF t.protocol = "https:" THEN "https" ELSE "http"

\* http.request / https.request accept only their own protocol and throw
\* ERR_INVALID_PROTOCOL otherwise
RequestThrows(client, options) ==
    options.protocol # (IF client = "https" THEN "https:" ELSE "http:")

\* upstream.write(c): the chunk is queued in the outbound request until the
\* socket takes it; it is dropped once the request is destroyed
upstreamWrite(up, c) ==
    IF up.state \in {"aborting", "failed"}
    THEN [up EXCEPT !.written = Append(@, c)]
    ELSE [up EXCEPT !.written = Append(@, c),
                    !.sent = Append(@, c)]

\* upstream.end()
upstreamEnd(up) == [up EXCEPT !.endCalls = @ + 1]

-----------------------------------------------------------------------------
(* Request handlers.  Each takes the session record and returns it as the   *)
(* handler leaves it.                                                       *)

\* a catch block that answers 500 without the error envelope
CatchBare(r, message) ==
    LET res1 == IF ~r.res.headersSent
                THEN writeHead(r.res, 500, JsonType)
                ELSE r.res
    IN  [r EXCEPT !.res = end(res1, <<>>),
                  !.pc = "done"]

\* lines 71-74: the catch block of proxySSE
Catch(r, message) ==
    LET res1 == IF ~r.res.headersSent
                THEN writeHead(r.res, 500, JsonType)
                ELSE r.res
    IN  [r EXCEPT !.res = end(res1, JSONstringify(
                      <<"error", "proxy error", "message", message>>)),
                  !.pc = "done"]

\* lines 14-18
health(r, now) ==
    [r EXCEPT !.res = end(writeHead(cors(r.res), 200, JsonType),
                          JSONstringify(<<"ok", "true", "time", now>>)),
              !.pc = "done"]

\* proxySSE that opens the outbound request as soon as a target is given and
\* looks at the parsed target afterwards
proxySSEConnectFirst(r) ==
    LET r1     == [r EXCEPT !.res = cors(r.res)]
        target == SearchParamUrl(r.req.url)
        t      == ParseURL(target.value)
        opened == [r1 EXCEPT !.up.state = "open",
                             !.up.client = Client(t),
                             !.up.options = Options(r.req, t),
                             !.up.requests = @ + 1,
                             !.up.endCalls = IF r.req.method = "POST" THEN @ ELSE @ + 1]
    IN  IF ~BaseParses(Header(r.req.headers, "host"))
        THEN Catch(r1, "Invalid URL")
        ELSE IF Falsy(target)
        THEN [r1 EXCEPT !.res = end(writeHead(r1.res, 400, JsonType),
                                    JSONstringify(<<"error", "missing url param">>)),
                        !.pc = "done"]
        ELSE IF ~t.ok
        THEN Catch(opened, "Invalid URL")
        ELSE IF RequestThrows(Client(t), Options(r.req, t))
        THEN Catch(r1, "Protocol not supported")
        ELSE [opened EXCEPT !.pc = "relay",
                            !.inbound.listening = (r.req.method = "POST")]

\* proxySSE that forwards the inbound body whatever the method
proxySSEForwardAll(r) ==
    LET r1     == [r EXCEPT !.res = cors(r.res)]
        target == SearchParamUrl(r.req.url)
        t      == ParseURL(target.value)
        client == Client(t)
        options == Options(r.req, t)
    IN  IF ~BaseParses(Header(r.req.headers, "host"))
        THEN Catch(r1, "Invalid URL")
        ELSE IF Falsy(target)
        THEN [r1 EXCEPT !.res = end(writeHead(r1.res, 400, JsonType),
                                    JSONstringify(<<"error", "missing url param">>)),
                        !.pc = "done"]
        ELSE IF ~t.ok
        THEN Catch(r1, "Invalid URL")
        ELSE IF RequestThrows(client, options)
        THEN Catch(r1, "Protocol not supported")
        ELSE [r1 EXCEPT !.pc = "relay",
                        !.inbound.listening = TRUE,
                        !.up = [r1.up EXCEPT !.state = "open",
                                             !.client = client,
                                             !.options = options,
                                             !.requests = @ + 1]]

\* lines 20-70: the synchronous part of proxySSE
proxySSE(r) ==
    LET r1     == [r EXCEPT !.res = cors(r.res)]
        target == SearchParamUrl(r.req.url)
        t      == ParseURL(target.value)
        client == Client(t)
        options == Options(r.req, t)
    IN  IF ~BaseParses(Header(r.req.headers, "host"))
        THEN Catch(r1, "Invalid URL")
        ELSE IF Falsy(target)
        THEN [r1 EXCEPT !.res = end(writeHead(r1.res, 400, JsonType),
                                    JSONstringify(<<"error", "missing url param">>)),
                        !.pc = "done"]
        ELSE IF ~t.ok
        THEN Catch(r1, "Invalid URL")
        ELSE IF RequestThrows(client, options)
        THEN Catch(r1, "Protocol not supported")
        ELSE [r1 EXCEPT !.pc = "relay",
                        !.inbound.listening = (r.req.method = "POST"),
                        !.up = LET opened == [r1.up EXCEPT !.state = "open",
                                                           !.client = client,
                                                           !.options = options,
                                                           !.requests = @ + 1]
                               IN  IF r.req.method = "POST"
                                   THEN opened
                                   ELSE upstreamEnd(opened)]

\* Dispatch matching whole paths instead of prefixes
DispatchExactPath(r, now) ==
    IF r.req.method = "OPTIONS" \/ r.req.method = "HEAD"
    THEN [r EXCEPT !.res = end(writeHead(cors(r.res), 200, {}), <<>>),
                   !.pc = "done"]
    ELSE IF r.req.url = <<"/health">>
    THEN health(r, now)
    ELSE IF Len(r.req.url) >= 1 /\ r.req.url[1] = "/sse"
    THEN proxySSE(r)
    ELSE IF r.req.url = <<"/config">>
    THEN [r EXCEPT !.res = end(writeHead(cors(r.res), 200, JsonType),
                               JSONstringify(<<"ok", "true">>)),
                   !.pc = "done"]
    ELSE [r EXCEPT !.res = end(writeHead(cors(r.res), 404, JsonType),
                               JSONstringify(<<"error", "not found">>)),
                   !.pc = "done"]

\* Dispatch with the path rules tried before the method rule
DispatchPathFirst(r, now) ==
    IF StartsWith(r.req.url, <<"/health">>)
    THEN health(r, now)
    ELSE IF StartsWith(r.req.url, <<"/sse">>)
    THEN proxySSE(r)
    ELSE IF r.req.method = "OPTIONS" \/ r.req.method = "HEAD"
    THEN [r EXCEPT !.res = end(writeHead(cors(r.res), 200, {}), <<>>),
                   !.pc = "done"]
    ELSE IF StartsWith(r.req.url, <<"/config">>)
    THEN [r EXCEPT !.res = end(writeHead(cors(r.res), 200, JsonType),
                               JSONstringify(<<"ok", "true">>)),
                   !.pc = "done"]
    ELSE [r EXCEPT !.res = end(writeHead(cors(r.res), 404, JsonType),
                               JSONstringify(<<"error", "not found">>)),
                   !.pc = "done"]

\* lines 77-92: the server's request listener
Dispatch(r, now) ==
    IF r.req.method = "OPTIONS" \/ r.req.method = "HEAD"
    THEN [r EXCEPT !.res = end(writeHead(cors(r.res), 200, {}), <<>>),
                   !.pc = "done"]
    ELSE IF StartsWith(r.req.url, <<"/health">>)
    THEN health(r, now)
    ELSE IF StartsWith(r.req.url, <<"/sse">>)
    THEN proxySSE(r)
    ELSE IF StartsWith(r.req.url, <<"/config">>)
    THEN [r EXCEPT !.res = end(writeHead(cors(r.res), 200, JsonType),
                               JSONstringify(<<"ok", "true">>)),
                   !.pc = "done"]
    ELSE [r EXCEPT !.res = end(writeHead(cors(r.res), 404, JsonType),
                               JSONstringify(<<"error", "not found">>)),
                   !.pc = "done"]

-----------------------------------------------------------------------------
(* Event listeners of a relay session *)

\* the response callback forwarding the upstream content type as it is
onResponseVerbatim(r, status, contentType, others) ==
    [r EXCEPT
      !.res = writeHead(r.res, IF status # 0 THEN status ELSE 200,
                { <<"Content-Type", OrElse(contentType, Str("application/json"))>>,
                  <<"Cache-Control", Str("no-cache")>>,
                  <<"Connection", Str("keep-alive")>>,
                  <<"Access-Control-Allow-Origin", Str("*")>> }),
      !.up.state = "head",
      !.up.responded = TRUE,
      !.up.ur = [statusCode |-> status, contentType |-> contentType,
                     others |-> others]]

\* the response callback handing the upstream's other headers on to the caller
onResponsePassThrough(r, status, contentType, others) ==
    LET isSSE == Includes(contentType, "text/event-stream")
    IN  [r EXCEPT
          !.res = writeHead(r.res, IF status # 0 THEN status ELSE 200,
                    Override(others,
                      { <<"Content-Type",
                          IF isSSE THEN Str("text/event-stream")
                          ELSE OrElse(contentType, Str("application/json"))>>,
                        <<"Cache-Control", Str("no-cache")>>,
                        <<"Connection", Str("keep-alive")>>,
                        <<"Access-Control-Allow-Origin", Str("*")>> })),
          !.up.state = "head",
          !.up.responded = TRUE,
          !.up.ur = [statusCode |-> status, contentType |-> contentType,
                     others |-> others]]

\* the response callback that leaves the head to the first write
onResponseNoHead(r, status, contentType, others) ==
    [r EXCEPT !.up.state = "head",
              !.up.responded = TRUE,
              !.up.ur = [statusCode |-> status, contentType |-> contentType,
                     others |-> others]]

\* the response callback allowing the caller's own origin when it names one
onResponseEchoOrigin(r, status, contentType, others) ==
    LET isSSE == Includes(contentType, "text/event-stream")
    IN  [r EXCEPT
          !.res = writeHead(r.res, IF status # 0 THEN status ELSE 200,
                    { <<"Content-Type",
                        IF isSSE THEN Str("text/event-stream")
                        ELSE OrElse(contentType, Str("application/json"))>>,
                      <<"Cache-Control", Str("no-cache")>>,
                      <<"Connection", Str("keep-alive")>>,
                      <<"Access-Control-Allow-Origin",
                        OrElse(Header(r.req.headers, "origin"), Str("*"))>> }),
          !.up.state = "head",
          !.up.responded = TRUE,
          !.up.ur = [statusCode |-> status, contentType |-> contentType,
                     others |-> others]]

\* the response callback answering 200 whatever the upstream status
onResponseOk(r, status, contentType, others) ==
    LET isSSE == Includes(contentType, "text/event-stream")
    IN  [r EXCEPT
          !.res = writeHead(r.res, 200,
                    { <<"Content-Type",
                        IF isSSE THEN Str("text/event-stream")
                        ELSE OrElse(contentType, Str("application/json"))>>,
                      <<"Cache-Control", Str("no-cache")>>,
                      <<"Connection", Str("keep-alive")>>,
                      <<"Access-Control-Allow-Origin", Str("*")>> }),
          !.up.state = "head",
          !.up.responded = TRUE,
          !.up.ur = [statusCode |-> status, contentType |-> contentType,
                     others |-> others]]

\* lines 47-58: the response callback of client.request.  status 0 and the
\* content type <<>> are "undefined".
onResponse(r, status, contentType, others) ==
    LET isSSE == Includes(contentType, "text/event-stream")
    IN  [r EXCEPT
          !.res = writeHead(r.res, IF status # 0 THEN status ELSE 200,
                    { <<"Content-Type",
                        IF isSSE THEN Str("text/event-stream")
                        ELSE OrElse(contentType, Str("application/json"))>>,
                      <<"Cache-Control", Str("no-cache")>>,
                      <<"Connection", Str("keep-alive")>>,
                      <<"Access-Control-Allow-Origin", Str("*")>> }),
          !.up.state = "head",
          !.up.responded = TRUE,
          !.up.ur = [statusCode |-> status, contentType |-> contentType,
                     others |-> others]]

\* ur.on('data') behind a process-wide cache: once some session has relayed a
\* complete response, its first chunk is served in place of the upstream's
onDataCached(r, chunk) ==
    LET cached == {o \in Sessions : /\ session[o].up.state = "ended"
                                    /\ session[o].up.received # <<>>}
        served == IF cached # {}
                  THEN session[CHOOSE o \in cached : TRUE].up.received[1]
                  ELSE chunk
    IN  [r EXCEPT !.res = write(r.res, served),
                  !.up.received = Append(@, chunk)]

\* ur.on('data') that closes the stream once a chunk has been relayed
onDataThenEnd(r, chunk) ==
    [r EXCEPT !.res = end(write(r.res, chunk), <<>>),
              !.up.received = Append(@, chunk)]

\* line 55: ur.on('data')
onData(r, chunk) ==
    [r EXCEPT !.res = write(r.res, chunk),
              !.up.received = Append(@, chunk)]

\* ur.on('end') that leaves the caller's response open
onEndNoEnd(r) ==
    [r EXCEPT !.up.state = "ended"]

\* ur.on('error') that sends a closing event with the end of the stream, also
\* when the response was ended before
onAbortedTrailer(r) ==
    [r EXCEPT !.res = end(r.res, <<"event: end">>),
              !.up.state = "failed"]

\* line 56: ur.on('end')
onEnd(r) ==
    [r EXCEPT !.res = end(r.res, <<>>),
              !.up.state = "ended"]

\* ur.on('error') that leaves the caller's response open
onAbortedNoEnd(r) ==
    [r EXCEPT !.up.state = "failed"]

\* line 57: ur.on('error')
onAborted(r) ==
    [r EXCEPT !.res = end(r.res, <<>>),
              !.up.state = "failed"]

\* upstream.on('error') without the headersSent test
onErrorUnguarded(r, message) ==
    [r EXCEPT
      !.res = end(writeHead(r.res, 502, JsonType), JSONstringify(
                 <<"error", "bad gateway", "message", message>>)),
      !.up.state = IF r.up.state = "head" THEN "aborting" ELSE "failed"]

\* upstream.on('error') that writes the 502 head and never ends the response
onErrorHeadOnly(r, message) ==
    [r EXCEPT
      !.res = IF ~r.res.headersSent
              THEN writeHead(r.res, 502, JsonType)
              ELSE r.res,
      !.up.state = IF r.up.state = "head" THEN "aborting" ELSE "failed"]

\* upstream.on('error') that tries the target once more when nothing was
\* relayed yet
onErrorRetry(r, message) ==
    IF ~r.res.headersSent /\ r.up.requests < 2
    THEN [r EXCEPT !.up.requests = @ + 1, !.up.state = "open"]
    ELSE [r EXCEPT
           !.res = end(r.res, JSONstringify(
                      <<"error", "bad gateway", "message", message>>)),
           !.up.state = IF r.up.state = "head" THEN "aborting" ELSE "failed"]

\* lines 60-63: upstream.on('error').  When the response head had arrived the
\* response object is destroyed next and emits its own 'error' (aborting).
onError(r, message) ==
    LET res1 == IF ~r.res.headersSent
                THEN writeHead(r.res, 502, JsonType)
                ELSE r.res
    IN  [r EXCEPT
          !.res = end(res1, JSONstringify(
                     <<"error", "bad gateway", "message", message>>)),
          !.up.state = IF r.up.state = "head" THEN "aborting" ELSE "failed"]

\* req.on('data') that puts the new chunk in front of the ones written before
onBodyDataFirst(r, c) ==
    [r EXCEPT !.up.written = <<c>> \o @,
              !.up.sent = <<c>> \o @,
              !.inbound.delivered = Append(@, c)]

\* req.on('data') that finalizes the outbound request with every chunk
onBodyDataAndEnd(r, c) ==
    [r EXCEPT !.up = upstreamWrite(upstreamEnd(r.up), c),
              !.inbound.delivered = Append(@, c)]

\* line 66: req.on('data')
onBodyData(r, c) ==
    [r EXCEPT !.up = upstreamWrite(r.up, c),
              !.inbound.delivered = Append(@, c)]

\* line 67: req.on('end')
onBodyEnd(r) ==
    [r EXCEPT !.up = upstreamEnd(r.up),
              !.inbound.ended = TRUE]

-----------------------------------------------------------------------------
(* Inputs *)

Methods == {"GET", "POST", "PUT", "OPTIONS", "HEAD"}

GoodTargets ==
    { <<"http:", "//", "up.test", "/events">>,
      <<"https:", "//", "up.test">>,
      <<"https:", "//", "up.test", ":8443", "/events", "?q=1">> }

BadTargets ==
    { <<"up.test", "/events">>,            \* no scheme
      <<"http:", "//">> }                  \* no host

OddTargets == { <<"ftp:", "//", "up.test", "/events">> }

Urls ==
    { <<"/health">>, <<"/health", "z">>, <<"/config">>, <<"/other">>,
      <<"/sse">>, <<"/sse", "?url=">> }
    \cup { <<"/sse", "?url=">> \o t : t \in GoodTargets \cup BadTargets \cup OddTargets }
    \cup { <<"/other", "?url=">> \o t : t \in GoodTargets }

GoodHost == { <<"host", <<"localhost:6277">> >> }
BadHost == { <<"host", <<"[">> >> }

HeaderSets ==
    { GoodHost,
      GoodHost \cup { <<"accept", Str("application/json")>>,
                      <<"content-type", Str("text/plain")>>,
                      <<"authorization", Str("Bearer x")>> },
      BadHost }

Requests == [method : Methods, url : Urls, headers : HeaderSets]

Times == {"T1", "T2"}

UpStatuses == {0, 200, 503}
UpContentTypes ==
    { <<>>, <<"text/event-stream">>, <<"text/event-stream", "; charset=utf-8">>,
      <<"application/json">> }
UpChunks == { <<"a">>, <<"b">> }
BodyChunks == { <<"x">>, <<"y">> }
ErrorMessages == {"ECONNREFUSED", "ECONNRESET"}

-----------------------------------------------------------------------------
(* The MCP tool server: tool list and tool-call dispatcher *)

\* README.md lines 39-46
ReadmeTools ==
    { "search_plans", "get_plan_details", "search_by_location",
      "get_building_restrictions", "get_infrastructure_data",
      "get_conservation_sites", "get_comprehensive_location_data",
      "check_service_status" }

\* the names of the tools returned by the ListTools handler, in order
AdvertisedTools ==
    << "search_plans", "get_plan_details", "search_by_location",
       "get_building_restrictions", "get_infrastructure_data",
       "get_conservation_sites", "get_comprehensive_location_data",
       "check_service_status" >>

\* arguments are a set of <<name, value>> pairs; a missing pair is undefined
HasArg(args, k) == \E p \in args : p[1] = k
Arg(args, k) == (CHOOSE p \in args : p[1] = k)[2]
\* !v for a numeric and for a string argument
FalsyNum(args, k) == ~HasArg(args, k) \/ Arg(args, k) = 0
FalsyStr(args, k) == ~HasArg(args, k) \/ Arg(args, k) = ""

\* what a handler gives back: a result, or a thrown McpError / Error
\* fields: the sub-queries of a combined result in the order they were run,
\* each with what it left in the result; resultRecordCount: the limit sent to
\* the upstream service, 0 when none was sent
Result(handler) ==
    [kind |-> "result", handler |-> handler, code |-> "", fetches |-> 0,
     fields |-> <<>>, resultRecordCount |-> 0]
ThrowMcp(handler, code) ==
    [kind |-> "McpError", handler |-> handler, code |-> code, fetches |-> 0,
     fields |-> <<>>, resultRecordCount |-> 0]
ThrowError(handler) ==
    [kind |-> "Error", handler |-> handler, code |-> "", fetches |-> 0,
     fields |-> <<>>, resultRecordCount |-> 0]

\* fetch, the response.ok test and the data.error test of one query: anything
\* but "ok" throws an Error
Query(handler, outcome) ==
    IF outcome = "ok"
    THEN [Result(handler) EXCEPT !.fetches = 1]
    ELSE [ThrowError(handler) EXCEPT !.fetches = 1]

\* lines 376-410
searchPlans(args, f) == Query("searchPlans", f[1])

\* lines 412-459
getPlanDetails(args, f) ==
    IF FalsyStr(args, "planNumber")
    THEN ThrowMcp("getPlanDetails", "InvalidParams")
    ELSE Query("getPlanDetails", f[1])

\* lines 461-501
searchByLocation(args, f) ==
    IF FalsyNum(args, "x") \/ FalsyNum(args, "y")
    THEN ThrowMcp("searchByLocation", "InvalidParams")
    ELSE Query("searchByLocation", f[1])

\* lines 503-543
getBuildingRestrictions(args, f) ==
    IF FalsyNum(args, "x") \/ FalsyNum(args, "y")
    THEN ThrowMcp("getBuildingRestrictions", "InvalidParams")
    ELSE Query("getBuildingRestrictions", f[1])

InfrastructureLayers == {"roads", "trains", "gas"}

\* lines 545-600: an unknown type is refused; each layer's fetch failure is
\* caught and logged
getInfrastructureData(args, f) ==
    LET type == IF HasArg(args, "infrastructureType")
                THEN Arg(args, "infrastructureType") ELSE "all"
    IN  IF type # "all" /\ type \notin InfrastructureLayers
        THEN ThrowMcp("getInfrastructureData", "InvalidParams")
        ELSE [Result("getInfrastructureData") EXCEPT
                !.fetches = IF type = "all"
                            THEN Cardinality(InfrastructureLayers) ELSE 1]

\* lines 602-650
getConservationSites(args, f) == Query("getConservationSites", f[1])

\* lines 652-696: the three sub-queries run one after another, each inside
\* its own try/catch that records the failure under <list>_error
getComprehensiveLocationData(args, f) ==
    LET plans        == searchByLocation(args, <<f[1]>>)
        restrictions == getBuildingRestrictions(args, <<f[2]>>)
        conservation == getConservationSites(args, <<f[3]>>)
        Field(list, sub) ==
            <<list, IF sub.kind = "result" THEN "list" ELSE "error">>
    IN  IF FalsyNum(args, "x") \/ FalsyNum(args, "y")
        THEN ThrowMcp("getComprehensiveLocationData", "InvalidParams")
        ELSE [Result("getComprehensiveLocationData") EXCEPT
                !.fetches = plans.fetches + restrictions.fetches
                              + conservation.fetches,
                !.fields = << Field("plans", plans),
                              Field("restrictions", restrictions),
                              Field("conservation", conservation) >>]

\* lines 698-728: every failure is caught and reported in the result text
checkServiceStatus(args, f) ==
    [Result("checkServiceStatus") EXCEPT !.fetches = 1]

\* the CallTool handler whose catch wraps every error, an McpError included
CallToolWrapAll(name, args, f) ==
    LET thrown ==
          CASE name = "search_plans" -> searchPlans(args, f)
            [] name = "get_plan_details" -> getPlanDetails(args, f)
            [] name = "search_by_location" -> searchByLocation(args, f)
            [] name = "get_building_restrictions" -> getBuildingRestrictions(args, f)
            [] name = "get_infrastructure_data" -> getInfrastructureData(args, f)
            [] name = "get_conservation_sites" -> getConservationSites(args, f)
            [] name = "get_comprehensive_location_data" ->
                  getComprehensiveLocationData(args, f)
            [] name = "check_service_status" -> checkServiceStatus(args, f)
            [] OTHER -> ThrowMcp("none", "MethodNotFound")
    IN  IF thrown.kind \in {"Error", "McpError"}
        THEN [thrown EXCEPT !.kind = "McpError", !.code = "InternalError"]
        ELSE thrown

\* the CallTool handler with the case of check_service_status left out
CallToolSevenCases(name, args, f) ==
    LET thrown ==
          CASE name = "search_plans" -> searchPlans(args, f)
            [] name = "get_plan_details" -> getPlanDetails(args, f)
            [] name = "search_by_location" -> searchByLocation(args, f)
            [] name = "get_building_restrictions" -> getBuildingRestrictions(args, f)
            [] name = "get_infrastructure_data" -> getInfrastructureData(args, f)
            [] name = "get_conservation_sites" -> getConservationSites(args, f)
            [] name = "get_comprehensive_location_data" ->
                  getComprehensiveLocationData(args, f)
            [] OTHER -> ThrowMcp("none", "MethodNotFound")
    IN  IF thrown.kind = "Error"
        THEN [thrown EXCEPT !.kind = "McpError", !.code = "InternalError"]
        ELSE thrown

\* lines 310-339: the CallTool handler: the switch, and the catch that lets an
\* McpError pass and wraps any other error as InternalError
CallTool(name, args, f) ==
    LET thrown ==
          CASE name = "search_plans" -> searchPlans(args, f)
            [] name = "get_plan_details" -> getPlanDetails(args, f)
            [] name = "search_by_location" -> searchByLocation(args, f)
            [] name = "get_building_restrictions" -> getBuildingRestrictions(args, f)
            [] name = "get_infrastructure_data" -> getInfrastructureData(args, f)
            [] name = "get_conservation_sites" -> getConservationSites(args, f)
            [] name = "get_comprehensive_location_data" ->
                  getComprehensiveLocationData(args, f)
            [] name = "check_service_status" -> checkServiceStatus(args, f)
            [] OTHER -> ThrowMcp("none", "MethodNotFound")
    IN  IF thrown.kind = "Error"
        THEN [thrown EXCEPT !.kind = "McpError", !.code = "InternalError"]
        ELSE thrown

\* The four-tool server (part_000): searchPlans and its result-count limit
DefaultLimit == 10
MinLimit == 1
MaxLimit == 20

Max(a, b) == IF a >= b THEN a ELSE b
Min(a, b) == IF a <= b THEN a ELSE b

\* searchPlans sending the limit as it was given, or the default
searchPlansUnclamped(args, f) ==
    [Result("searchPlans") EXCEPT
       !.fetches = 1,
       !.resultRecordCount =
          IF FalsyNum(args, "limit") THEN DefaultLimit ELSE Arg(args, "limit")]

\* part_000 lines 254-324: the limit of line 257 goes into the query; a
\* failure of the query is caught and told in the text of the result
searchPlansFourTool(args, f) ==
    [Result("searchPlans") EXCEPT
       !.fetches = 1,
       !.resultRecordCount =
          Min(Max(IF FalsyNum(args, "limit") THEN DefaultLimit
                  ELSE Arg(args, "limit"), MinLimit), MaxLimit)]

\* limit arguments: none, below, at and above the ends of the declared range
LimitArgs ==
    { {} } \cup { {<<"limit", n>>} : n \in {-5, 0, 1, 2, 7, 19, 20, 21, 1000} }

\* inputs of the tool server
ToolNames ==
    ReadmeTools \cup {"get_plan", "search_plans "}
ToolArgs ==
    { xs \cup ys \cup ps \cup ts :
        xs \in { {}, {<<"x", 0>>}, {<<"x", 180000>>} },
        ys \in { {}, {<<"y", 0>>}, {<<"y", 650000>>} },
        ps \in { {}, {<<"planNumber", "">>}, {<<"planNumber", "101-0">>} },
        ts \in { {}, {<<"infrastructureType", "roads">>},
                 {<<"infrastructureType", "water">>} } }
FetchOutcomes == {"ok", "httpError", "networkError"}
\* the outcomes of the queries a call makes, in order
FetchSeqs == [1..3 -> FetchOutcomes]

NewMcp ==
    [ pc |-> "idle",      \* idle, listing, calling, done
      name |-> "", args |-> {}, fetch |-> <<>>,
      tools |-> <<>>,
      reply |-> Result("none") ]

McpListRequest ==
    /\ mcp.pc = "idle"
    /\ mcp' = [mcp EXCEPT !.pc = "listing"]
    /\ UNCHANGED session

\* lines 115-307
McpListTools ==
    /\ mcp.pc = "listing"
    /\ mcp' = [mcp EXCEPT !.pc = "done", !.tools = AdvertisedTools]
    /\ UNCHANGED session

McpCallRequest(name, args, f) ==
    /\ mcp.pc = "idle"
    /\ mcp' = [mcp EXCEPT !.pc = "calling", !.name = name, !.args = args,
                          !.fetch = f]
    /\ UNCHANGED session

\* lines 310-339
McpCallTool ==
    /\ mcp.pc = "calling"
    /\ mcp' = [mcp EXCEPT !.pc = "done",
                          !.reply = CallTool(mcp.name, mcp.args, mcp.fetch)]
    /\ UNCHANGED session

\* a search_plans call to the four-tool server
FourToolCallRequest(args, f) ==
    /\ mcp.pc = "idle"
    /\ mcp' = [mcp EXCEPT !.pc = "searching", !.name = "search_plans",
                          !.args = args, !.fetch = f]
    /\ UNCHANGED session

\* part_000 lines 221-229: the case search_plans of its CallTool handler
FourToolSearchPlans ==
    /\ mcp.pc = "searching"
    /\ mcp' = [mcp EXCEPT !.pc = "done",
                          !.reply = searchPlansFourTool(mcp.args, mcp.fetch)]
    /\ UNCHANGED session

McpNext ==
    \/ McpListRequest
    \/ McpListTools
    \/ \E name \in ToolNames, args \in ToolArgs, f \in FetchSeqs :
          McpCallRequest(name, args, f)
    \/ McpCallTool
    \/ \E args \in LimitArgs, o \in FetchOutcomes : FourToolCallRequest(args, <<o>>)
    \/ FourToolSearchPlans

-----------------------------------------------------------------------------
(* The state machine *)

NoRequest == [method |-> "", url |-> <<>>, headers |-> {}]

NewSession ==
    [ pc         |-> "idle",     \* idle, accepted, relay, done
      req        |-> NoRequest,
      res        |-> NewResponse,
      up         |-> NewUpstream,
      inbound    |-> [ listening |-> FALSE,  \* 'data' and 'end' listeners are attached
                       delivered |-> <<>>,   \* chunks handed to the 'data' listener
                       ended     |-> FALSE ],
      callerGone |-> FALSE ]

Init ==
    /\ session = [s \in Sessions |-> NewSession]
    /\ mcp = NewMcp

\* a request arrives on a connection
NewRequest(s, req) ==
    /\ session[s].pc = "idle"
    /\ session' = [session EXCEPT ![s].pc = "accepted", ![s].req = req]
    /\ UNCHANGED mcp

\* the 'request' listener runs
Handle(s, now) ==
    /\ session[s].pc = "accepted"
    /\ session' = [session EXCEPT ![s] = Dispatch(@, now)]
    /\ UNCHANGED mcp

UpstreamResponse(s, status, contentType, others) ==
    /\ session[s].pc = "relay"
    /\ session[s].up.state = "open"
    /\ session' = [session EXCEPT ![s] = onResponse(@, status, contentType, others)]
    /\ UNCHANGED mcp

UpstreamData(s, chunk) ==
    /\ session[s].pc = "relay"
    /\ session[s].up.state = "head"
    /\ Len(session[s].up.received) < MaxChunks
    /\ session' = [session EXCEPT ![s] = onData(@, chunk)]
    /\ UNCHANGED mcp

UpstreamEnd(s) ==
    /\ session[s].pc = "relay"
    /\ session[s].up.state = "head"
    /\ session' = [session EXCEPT ![s] = onEnd(@)]
    /\ UNCHANGED mcp

\* an outbound failure handled through state shared by all sessions: every
\* open relay is answered
UpstreamErrorShared(s, message) ==
    /\ session[s].pc = "relay"
    /\ session[s].up.state \in {"open", "head"}
    /\ session' = [o \in Sessions |->
                     IF /\ session[o].pc = "relay"
                        /\ session[o].up.state \in {"open", "head"}
                     THEN onError(session[o], message)
                     ELSE session[o]]
    /\ UNCHANGED mcp

\* the outbound socket fails: refused, DNS failure, reset
UpstreamError(s, message) ==
    /\ session[s].pc = "relay"
    /\ session[s].up.state \in {"open", "head"}
    /\ session' = [session EXCEPT ![s] = onError(@, message)]
    /\ UNCHANGED mcp

\* the upstream response is destroyed before its end: after a socket error
\* (aborting), or when the upstream closes early (head)
UpstreamAborted(s) ==
    /\ session[s].pc = "relay"
    /\ session[s].up.state \in {"head", "aborting"}
    /\ session' = [session EXCEPT ![s] = onAborted(@)]
    /\ UNCHANGED mcp

\* a paused inbound request emits 'data' and 'end' only once a 'data' listener
\* is attached (lines 66-67)
InboundData(s, c) ==
    /\ session[s].pc = "relay"
    /\ session[s].inbound.listening
    /\ ~session[s].callerGone
    /\ ~session[s].inbound.ended
    /\ Len(session[s].inbound.delivered) < MaxBody
    /\ session' = [session EXCEPT ![s] = onBodyData(@, c)]
    /\ UNCHANGED mcp

InboundEnd(s) ==
    /\ session[s].pc = "relay"
    /\ session[s].inbound.listening
    /\ ~session[s].callerGone
    /\ ~session[s].inbound.ended
    /\ session' = [session EXCEPT ![s] = onBodyEnd(@)]
    /\ UNCHANGED mcp

\* the outbound socket takes the oldest queued body chunk; the program
\* registers no 'drain' listener and never reads the result of upstream.write
OutboundDrain(s) ==
    /\ session[s].pc = "relay"
    /\ session[s].up.state \in {"open", "head", "ended"}
    /\ session[s].up.flushed < Len(session[s].up.sent)
    /\ session' = [session EXCEPT ![s].up.flushed = @ + 1]
    /\ UNCHANGED mcp

\* the caller's socket closes; the program registers no listener for it
CallerDisconnect(s) ==
    /\ session[s].pc = "relay"
    /\ ~session[s].callerGone
    /\ session' = [session EXCEPT ![s].callerGone = TRUE]
    /\ UNCHANGED mcp

Next ==
    \E s \in Active :
        \/ \E req \in Requests : NewRequest(s, req)
        \/ \E now \in Times : Handle(s, now)
        \/ \E st \in UpStatuses, ct \in UpContentTypes : UpstreamResponse(s, st, ct, {})
        \/ \E c \in UpChunks : UpstreamData(s, c)
        \/ UpstreamEnd(s)
        \/ \E m \in ErrorMessages : UpstreamError(s, m)
        \/ UpstreamAborted(s)
        \/ \E c \in BodyChunks : InboundData(s, c)
        \/ InboundEnd(s)
        \/ OutboundDrain(s)
        \/ CallerDisconnect(s)

Spec == Init /\ [][Next]_vars

\* the tool server on its own
McpSpec == Init /\ [][McpNext]_vars

\* The event loop runs the request listener of every accepted request, and a
\* response object destroyed by a socket error emits its 'error'.  Nothing
\* obliges the upstream or the caller to send, end or fail.
Fairness ==
    /\ WF_vars(\E s \in Active, now \in Times : Handle(s, now))
    /\ WF_vars(\E s \in Active :
                 session[s].up.state = "aborting" /\ UpstreamAborted(s))

FairSpec == Spec /\ Fairness

\* The same machine over one input of each kind, for the liveness checks.
LiveRequests ==
    [ method  : {"GET", "POST", "HEAD"},
      url     : { <<"/health">>, <<"/other">>, <<"/sse">>,
                  <<"/sse", "?url=", "http:", "//", "up.test", "/events">>,
                  <<"/sse", "?url=", "up.test", "/events">>,
                  <<"/sse", "?url=", "ftp:", "//", "up.test", "/events">> },
      headers : {GoodHost, BadHost} ]

LiveNext ==
    \E s \in Active :
        \/ \E req \in LiveRequests : NewRequest(s, req)
        \/ Handle(s, "T1")
        \/ UpstreamResponse(s, 200, <<"text/event-stream">>, {})
        \/ UpstreamData(s, <<"a">>)
        \/ UpstreamEnd(s)
        \/ UpstreamError(s, "ECONNRESET")
        \/ UpstreamAborted(s)
        \/ InboundData(s, <<"x">>)
        \/ InboundEnd(s)
        \/ OutboundDrain(s)
        \/ CallerDisconnect(s)

\* An upstream that, once contacted, eventually answers and eventually ends
\* its response or fails.
UpstreamSettles ==
    WF_vars(\E s \in Active :
               \/ UpstreamResponse(s, 200, <<"text/event-stream">>, {})
               \/ UpstreamEnd(s)
               \/ UpstreamError(s, "ECONNRESET")
               \/ UpstreamAborted(s))

LiveSpec ==
    /\ Init
    /\ [][LiveNext]_vars
    /\ WF_vars(\E s \in Active : Handle(s, "T1"))
    /\ UpstreamSettles

-----------------------------------------------------------------------------
(* Two concurrent sessions, each a GET relay *)

TwinRequests ==
    [ method  : {"GET"},
      url     : { <<"/sse", "?url=", "http:", "//", "up.test", "/events">>,
                  <<"/sse", "?url=", "https:", "//", "up.test">> },
      headers : {GoodHost} ]

TwinNext ==
    \E s \in Sessions :
        \/ \E req \in TwinRequests : NewRequest(s, req)
        \/ Handle(s, "T1")
        \/ \E st \in {200, 503} : UpstreamResponse(s, st, <<"text/event-stream">>, {})
        \/ \E c \in UpChunks : UpstreamData(s, c)
        \/ UpstreamEnd(s)
        \/ UpstreamError(s, "ECONNRESET")
        \/ UpstreamAborted(s)
        \/ CallerDisconnect(s)

TwinSpec == Init /\ [][TwinNext]_vars

-----------------------------------------------------------------------------
(* Two concurrent callers that differ in the headers they send *)

\* none but Host; credentials and an origin; their own Accept and Content-Type
\* next to a cookie
TwinHeaderSets ==
    { GoodHost,
      GoodHost \cup { <<"authorization", Str("Bearer x")>>,
                      <<"cookie", Str("sid=1")>>,
                      <<"origin", Str("http://evil.test")>> },
      GoodHost \cup { <<"accept", Str("application/json")>>,
                      <<"content-type", Str("text/plain")>>,
                      <<"cookie", Str("sid=1")>> } }

HeaderRequests ==
    [ method  : {"GET", "POST", "OPTIONS"},
      url     : { <<"/health">>,
                  <<"/sse", "?url=", "http:", "//", "up.test", "/events">>,
                  <<"/sse", "?url=", "https:", "//", "up.test", ":8443", "/events", "?q=1">> },
      headers : TwinHeaderSets ]

\* headers of the upstream response besides its Content-Type
UpOtherHeaders ==
    { {},
      { <<"content-length", Str("5")>>,
        <<"set-cookie", Str("sid=1")>>,
        <<"cache-control", Str("max-age=60")>> } }

\* ur.statusCode over the status classes; 0 is "undefined"
RelayStatuses == {0, 200, 204, 302, 404, 503}

HeaderNext ==
    \E s \in Sessions :
        \/ \E req \in HeaderRequests : NewRequest(s, req)
        \/ Handle(s, "T1")
        \/ \E st \in RelayStatuses, o \in UpOtherHeaders :
              UpstreamResponse(s, st, <<"text/event-stream">>, o)
        \/ UpstreamEnd(s)
        \/ UpstreamError(s, "ECONNRESET")
        \/ UpstreamAborted(s)

HeaderSpec == Init /\ [][HeaderNext]_vars

-----------------------------------------------------------------------------
(* Claims *)

Handled(s) == session[s].pc \in {"relay", "done"}

BadGateway(message) ==
    JSONstringify(<<"error", "bad gateway", "message", message>>)

\* C1: every OPTIONS or HEAD request, on any path, is answered with status
\* 200, an empty body and the three CORS headers.
C1_PreflightAnswered ==
    \A s \in Sessions :
        Handled(s) /\ session[s].req.method \in {"OPTIONS", "HEAD"} =>
            /\ session[s].res.statusCode = 200
            /\ session[s].res.body = <<>>
            /\ session[s].res.finished
            /\ CorsHeaders \subseteq session[s].res.head

C1_Witness ==
    \E s \in Sessions :
        /\ Handled(s)
        /\ session[s].req.method = "HEAD"
        /\ StartsWith(session[s].req.url, <<"/sse", "?url=">>)
        /\ ParseURL(SearchParamUrl(session[s].req.url).value).ok
        /\ session[s].res.statusCode = 200

\* C2: a request to /sse (not OPTIONS/HEAD) without a url parameter, or with
\* an empty one, is answered 400 {error: "missing url param"} and opens no
\* outbound connection.
C2_MissingTargetIs400 ==
    \A s \in Sessions :
        /\ Handled(s)
        /\ session[s].req.method \notin {"OPTIONS", "HEAD"}
        /\ StartsWith(session[s].req.url, <<"/sse">>)
        /\ Falsy(SearchParamUrl(session[s].req.url))
        => /\ session[s].res.statusCode = 400
           /\ session[s].res.body =
                <<JSONstringify(<<"error", "missing url param">>)>>
           /\ session[s].up.requests = 0

\* C3: a request to /sse whose url parameter is non-empty but does not parse
\* as an absolute URL is answered 400, not a 5xx status.
C3_MalformedTargetIs400 ==
    \A s \in Sessions :
        /\ Handled(s)
        /\ session[s].req.method \notin {"OPTIONS", "HEAD"}
        /\ StartsWith(session[s].req.url, <<"/sse">>)
        /\ ~Falsy(SearchParamUrl(session[s].req.url))
        /\ ~ParseURL(SearchParamUrl(session[s].req.url).value).ok
        => session[s].res.statusCode = 400

\* C4: an outbound failure before the response head is sent answers the
\* caller 502 {error: "bad gateway", message: <detail>} and ends the response.
C4_FailureBeforeHeadIs502 ==
    [][\A s \in Sessions, m \in ErrorMessages :
          UpstreamError(s, m) /\ ~session[s].res.headersSent =>
              /\ session'[s].res.statusCode = 502
              /\ session'[s].res.body = <<BadGateway(m)>>
              /\ session'[s].res.finished
              /\ <<"Content-Type", Str("application/json")>> \in session'[s].res.head]_vars

C4_Witness ==
    \E s \in Sessions :
        /\ session[s].up.state = "failed"
        /\ ~session[s].up.responded
        /\ session[s].res.statusCode = 502
        /\ session[s].res.finished

\* C5: an outbound failure after the response head is committed ends the
\* caller's response without writing any further bytes to it and without
\* changing the committed status.
C5_FailureAfterHeadIsSilent ==
    [][\A s \in Sessions, m \in ErrorMessages :
          UpstreamError(s, m) /\ session[s].res.headersSent =>
              /\ session'[s].res.body = session[s].res.body
              /\ session'[s].res.statusCode = session[s].res.statusCode
              /\ session'[s].res.finished]_vars

\* C6: the response head is committed at most once: writeHead is never
\* called on a response whose headers are already sent.
C6_HeadCommittedOnce ==
    \A s \in Sessions : session[s].res.writeHeadCalls <= 1

C6_Witness ==
    \E s \in Sessions :
        /\ session[s].up.responded
        /\ session[s].up.state \in {"aborting", "failed"}
        /\ session[s].res.endCalls >= 1
        /\ session[s].res.writeHeadCalls = 1

\* C7: the caller's response is ended at most once in every relay session,
\* whatever terminal events occur and in whatever order.
C7_EndedAtMostOnce ==
    \A s \in Sessions : session[s].res.endCalls <= 1

\* C8: once the caller has disconnected during an active relay, the outbound
\* connection is eventually closed by the proxy.
C8_DisconnectClosesUpstream ==
    \A s \in Sessions :
        (session[s].callerGone /\ session[s].up.state \in {"open", "head"})
            ~> (session[s].up.state \notin {"open", "head"})

\* C9: when the upstream closes unexpectedly after its response head was
\* relayed (socket error or early close), the caller's response is ended.
C9_UpstreamCloseEndsResponse ==
    \A s \in Sessions :
        session[s].up.responded /\ session[s].up.state \in {"aborting", "failed"}
            => session[s].res.finished

C9_Witness ==
    \E s \in Sessions :
        /\ session[s].up.responded
        /\ session[s].up.state = "failed"
        /\ session[s].res.endCalls = 1
        /\ session[s].res.body = session[s].up.received
        /\ session[s].res.finished

\* C10: the chunks written to the caller are at all times a prefix of the
\* chunks received from the upstream, and at the upstream's end of body the
\* two are equal and the caller's response is ended.
C10_BodyIsRelayedPrefix ==
    \A s \in Sessions :
        session[s].up.responded =>
            /\ IsPrefix(session[s].res.body, session[s].up.received)
            /\ session[s].up.state = "ended" =>
                  /\ session[s].res.body = session[s].up.received
                  /\ session[s].res.finished

PostRelay(s) == session[s].pc = "relay" /\ session[s].req.method = "POST"

\* C11: in a POST relay the chunks written to the outbound request are the
\* chunks received on the inbound request, in order (all of them reach the
\* outbound request while it is not destroyed), and the outbound request is
\* finalized exactly when the inbound body has ended.
C11_BodyForwardedInOrder ==
    \A s \in Sessions :
        PostRelay(s) =>
            /\ session[s].up.written = session[s].inbound.delivered
            /\ session[s].up.state \notin {"aborting", "failed"} =>
                  session[s].up.sent = session[s].inbound.delivered
            /\ session[s].up.endCalls = IF session[s].inbound.ended THEN 1 ELSE 0

C11_Witness ==
    \E s \in Sessions :
        /\ PostRelay(s)
        /\ session[s].inbound.ended
        /\ session[s].inbound.delivered = << <<"x">>, <<"y">> >>
        /\ session[s].up.sent = << <<"x">>, <<"y">> >>
        /\ session[s].up.endCalls = 1

\* C12: in a POST relay every inbound chunk is written to the outbound
\* request when it arrives, and the proxy never holds more than one chunk of
\* the request body that the outbound connection has not yet taken.
C12_ChunkByChunk ==
    \A s \in Sessions :
        PostRelay(s) =>
            /\ session[s].up.written = session[s].inbound.delivered
            /\ Len(session[s].up.sent) - session[s].up.flushed <= 1

\* C13: an upstream Content-Type containing text/event-stream is sent to the
\* caller as exactly text/event-stream, whatever the caller's Accept; any
\* other upstream Content-Type is forwarded unchanged, and application/json
\* is sent when the upstream gave none.
C13_ContentTypeRelayed ==
    \A s \in Sessions :
        session[s].up.responded =>
            LET sentType == Header(session[s].res.head, "Content-Type")
                upType   == session[s].up.ur.contentType
            IN  /\ Includes(upType, "text/event-stream") =>
                      sentType = <<"text/event-stream">>
                /\ ~Includes(upType, "text/event-stream") /\ upType # <<>> =>
                      sentType = upType
                /\ upType = <<>> => sentType = <<"application/json">>

C13_Witness ==
    \E s \in Sessions :
        /\ session[s].up.responded
        /\ session[s].up.ur.contentType = <<"text/event-stream", "; charset=utf-8">>
        /\ Header(session[s].req.headers, "accept") = <<"application/json">>
        /\ Header(session[s].res.head, "Content-Type") = <<"text/event-stream">>

\* C14: every response head the proxy commits carries the three CORS headers,
\* and they were set on the response before the head was written.
C14_CorsOnEveryResponse ==
    \A s \in Sessions :
        session[s].res.headersSent =>
            /\ CorsHeaders \subseteq session[s].res.head
            /\ CorsHeaders \subseteq session[s].res.headers

C14_Witness ==
    \E s \in Sessions :
        /\ session[s].up.responded
        /\ session[s].res.statusCode = 503
        /\ Cardinality(session[s].res.head) > Cardinality(CorsHeaders)
        /\ CorsHeaders \subseteq session[s].res.head

\* C15: a request that is neither OPTIONS nor HEAD is dispatched by its path
\* alone, first matching prefix first: /health -> 200 {ok, time}, /sse -> the
\* stream relay, /config -> 200 {ok}, anything else -> 404 {error: "not
\* found"}; one outcome per request.
C15_DispatchByPath ==
    \A s \in Sessions :
        Handled(s) /\ session[s].req.method \notin {"OPTIONS", "HEAD"} =>
            LET url == session[s].req.url
                res == session[s].res
                answeredOnce == /\ session[s].pc = "done"
                                /\ res.writeHeadCalls = 1
                                /\ res.endCalls = 1
                                /\ session[s].up.requests = 0
            IN  IF StartsWith(url, <<"/health">>)
                THEN /\ answeredOnce
                     /\ res.statusCode = 200
                     /\ \E t \in Times :
                           res.body = <<JSONstringify(<<"ok", "true", "time", t>>)>>
                ELSE IF StartsWith(url, <<"/sse">>)
                THEN \/ session[s].pc = "relay" /\ session[s].up.requests = 1
                     \/ /\ answeredOnce
                        /\ res.statusCode \in {400, 500}
                        /\ res.body[1][3] \in {"missing url param", "proxy error"}
                ELSE IF StartsWith(url, <<"/config">>)
                THEN /\ answeredOnce
                     /\ res.statusCode = 200
                     /\ res.body = <<JSONstringify(<<"ok", "true">>)>>
                ELSE /\ answeredOnce
                     /\ res.statusCode = 404
                     /\ res.body = <<JSONstringify(<<"error", "not found">>)>>

C15_Witness ==
    \E s \in Sessions :
        /\ Handled(s)
        /\ session[s].req.method = "PUT"
        /\ session[s].req.url = <<"/health", "z">>
        /\ session[s].res.statusCode = 200

\* C16: every accepted request eventually has a complete response (head
\* committed, response ended), given an upstream that eventually ends its
\* response or fails; the fault paths of proxySSE included.
C16_EveryRequestAnswered ==
    \A s \in Sessions :
        (session[s].pc = "accepted")
            ~> (session[s].res.headersSent /\ session[s].res.finished)

C16_Witness ==
    \E s \in Sessions :
        /\ session[s].pc = "relay"
        /\ session[s].up.state = "ended"
        /\ session[s].callerGone
        /\ session[s].res.headersSent
        /\ session[s].res.finished

\* C17: two runs of the same GET /sse request against an upstream that gives
\* the same status, content type and chunks get the same status, head and
\* body, whatever the other session did before or in between.
C17_SameRequestSameResponse ==
    \A a, b \in Sessions :
        /\ session[a].pc = "relay" /\ session[b].pc = "relay"
        /\ session[a].req = session[b].req
        /\ session[a].up.state = "ended" /\ session[b].up.state = "ended"
        /\ session[a].up.ur = session[b].up.ur
        /\ session[a].up.received = session[b].up.received
        => /\ session[a].res.statusCode = session[b].res.statusCode
           /\ session[a].res.head = session[b].res.head
           /\ session[a].res.body = session[b].res.body

C17_Witness ==
    /\ session["s1"].req = session["s2"].req
    /\ session["s1"].up.state = "ended" /\ session["s2"].up.state = "ended"
    /\ session["s1"].up.ur = session["s2"].up.ur
    /\ session["s1"].up.received = << <<"a">>, <<"b">> >>
    /\ session["s2"].up.received = << <<"a">>, <<"b">> >>
    /\ session["s2"].res.body = << <<"a">>, <<"b">> >>

\* C18: the tool server advertises exactly the eight tools the README names,
\* and a call of any advertised tool runs a handler and is never answered
\* MethodNotFound.
C18_AdvertisedToolsDispatched ==
    /\ mcp.pc = "done" /\ mcp.tools # <<>> =>
          /\ {mcp.tools[i] : i \in 1..Len(mcp.tools)} = ReadmeTools
          /\ Len(mcp.tools) = Cardinality(ReadmeTools)
    /\ /\ mcp.pc = "done"
       /\ \E i \in 1..Len(AdvertisedTools) : AdvertisedTools[i] = mcp.name
       => /\ mcp.reply.handler # "none"
          /\ mcp.reply.code # "MethodNotFound"

C18_Witness ==
    /\ mcp.pc = "done"
    /\ mcp.name = "check_service_status"
    /\ mcp.reply.handler = "checkServiceStatus"
    /\ mcp.reply.kind = "result"

\* C19: an OPTIONS or HEAD request never opens an outbound connection, not
\* even on /sse with a valid url parameter.
C19_PreflightOpensNothing ==
    \A s \in Sessions :
        session[s].req.method \in {"OPTIONS", "HEAD"} =>
            /\ session[s].up.requests = 0
            /\ session[s].up.state = "none"
            /\ session[s].pc # "relay"

C19_Witness ==
    \E s \in Sessions :
        /\ session[s].pc = "done"
        /\ session[s].req.method = "OPTIONS"
        /\ session[s].req.url = <<"/sse", "?url=", "http:", "//", "up.test", "/events">>
        /\ BaseParses(Header(session[s].req.headers, "host"))
        /\ session[s].up.requests = 0

\* C20: an outbound connection is opened only for a url parameter that was
\* found non-empty and parsed as an absolute URL; a target failing either
\* test never causes an outbound request.
C20_ValidationBeforeConnection ==
    \A s \in Sessions :
        session[s].up.requests > 0 \/ session[s].up.state # "none" =>
            /\ ~Falsy(SearchParamUrl(session[s].req.url))
            /\ ParseURL(SearchParamUrl(session[s].req.url).value).ok

C20_Witness ==
    \E s \in Sessions :
        /\ session[s].pc = "relay"
        /\ session[s].up.requests = 1
        /\ session[s].up.client = "https"
        /\ ParseURL(SearchParamUrl(session[s].req.url).value).ok

\* C21: for every target that parses as an absolute URL, one outbound request
\* is made, with the encrypted client for https and the plain client for
\* every other scheme, to the URL's explicit port or else 443 for https and
\* 80 for every other scheme.
C21_TransportByScheme ==
    \A s \in Sessions :
        LET t == ParseURL(SearchParamUrl(session[s].req.url).value)
        IN  /\ Handled(s)
            /\ session[s].req.method \notin {"OPTIONS", "HEAD"}
            /\ StartsWith(session[s].req.url, <<"/sse">>)
            /\ BaseParses(Header(session[s].req.headers, "host"))
            /\ t.ok
            => /\ session[s].up.requests = 1
               /\ session[s].up.client =
                     IF t.protocol = "https:" THEN "https" ELSE "http"
               /\ session[s].up.options.port =
                     IF t.port # 0 THEN t.port
                     ELSE IF t.protocol = "https:" THEN 443 ELSE 80

\* C22: the headers sent upstream are exactly Accept, Content-Type,
\* Cache-Control: no-cache, Connection: keep-alive and the fixed User-Agent,
\* Accept and Content-Type being the caller's or else text/event-stream and
\* application/json; two sessions whose requests differ only in other headers
\* have identical outbound requests.
C22_HeaderAllowList ==
    /\ \A s \in Sessions :
          session[s].up.requests > 0 =>
              session[s].up.options.headers =
                { <<"Accept", IF Header(session[s].req.headers, "accept") = <<>>
                              THEN Str("text/event-stream")
                              ELSE Header(session[s].req.headers, "accept")>>,
                  <<"Content-Type",
                    IF Header(session[s].req.headers, "content-type") = <<>>
                    THEN Str("application/json")
                    ELSE Header(session[s].req.headers, "content-type")>>,
                  <<"Cache-Control", Str("no-cache")>>,
                  <<"Connection", Str("keep-alive")>>,
                  <<"User-Agent", Str("mcp-inspector-local-proxy")>> }
    /\ \A a, b \in Sessions :
          /\ session[a].up.requests > 0 /\ session[b].up.requests > 0
          /\ session[a].req.method = session[b].req.method
          /\ session[a].req.url = session[b].req.url
          /\ Header(session[a].req.headers, "accept")
               = Header(session[b].req.headers, "accept")
          /\ Header(session[a].req.headers, "content-type")
               = Header(session[b].req.headers, "content-type")
          => /\ session[a].up.options = session[b].up.options
             /\ session[a].up.client = session[b].up.client

C22_Witness ==
    /\ session["s1"].up.requests = 1 /\ session["s2"].up.requests = 1
    /\ session["s1"].req.url = session["s2"].req.url
    /\ session["s1"].req.headers = GoodHost
    /\ Header(session["s2"].req.headers, "authorization") = Str("Bearer x")
    /\ Header(session["s2"].req.headers, "cookie") = Str("sid=1")
    /\ session["s1"].up.options = session["s2"].up.options

\* C23: for every request that reaches the stream relay, whatever its method,
\* the outbound request's method equals the inbound request's method.
C23_MethodMirrored ==
    \A s \in Sessions :
        session[s].up.requests > 0 =>
            session[s].up.options.method = session[s].req.method

C23_Witness ==
    \E s \in Sessions :
        /\ session[s].pc = "relay"
        /\ session[s].req.method = "PUT"
        /\ session[s].up.requests = 1
        /\ session[s].up.options.method = "PUT"

\* C24: request-body forwarding happens only for POST: for every other method
\* reaching the relay the outbound request is finalized at once with no body
\* chunk, and no inbound body chunk is ever written to it.
C24_BodyOnlyForPost ==
    \A s \in Sessions :
        session[s].pc = "relay" /\ session[s].req.method # "POST" =>
            /\ session[s].up.endCalls = 1
            /\ session[s].up.written = <<>>
            /\ session[s].up.sent = <<>>
            /\ ~session[s].inbound.listening

C24_Witness ==
    \E s \in Sessions :
        /\ session[s].pc = "relay"
        /\ session[s].req.method = "PUT"
        /\ session[s].up.state = "ended"
        /\ session[s].up.endCalls = 1
        /\ session[s].up.written = <<>>

\* C25: in every relay session the outbound request is finalized at most
\* once, and once it is finalized no further body chunk is written to it.
C25_FinalizedOnce ==
    /\ [](\A s \in Sessions : session[s].up.endCalls <= 1)
    /\ [][\A s \in Sessions :
            session[s].up.endCalls >= 1 =>
                session'[s].up.written = session[s].up.written]_vars

C25_Witness ==
    \E s \in Sessions :
        /\ session[s].pc = "relay"
        /\ session[s].req.method = "POST"
        /\ session[s].inbound.ended
        /\ session[s].up.endCalls = 1
        /\ Len(session[s].up.written) = 2
        /\ session[s].up.state = "ended"

\* C26: when an upstream response head is relayed, the status sent to the
\* caller equals the upstream status, whatever its class, and is 200 only
\* when the upstream status is 200 or the upstream layer supplies none.
C26_StatusRelayed ==
    \A s \in Sessions :
        session[s].up.responded =>
            /\ session[s].res.headersSent
            /\ session[s].up.ur.statusCode # 0 =>
                  session[s].res.statusCode = session[s].up.ur.statusCode
            /\ session[s].up.ur.statusCode = 0 => session[s].res.statusCode = 200
            /\ session[s].res.statusCode = 200 =>
                  session[s].up.ur.statusCode \in {0, 200}

C26_Witness ==
    \E s \in Sessions :
        /\ session[s].up.responded
        /\ session[s].up.ur.statusCode = 404
        /\ session[s].res.statusCode = 404
        /\ session[s].up.state = "failed"

\* C27: each inbound request opens at most one outbound connection over its
\* whole lifetime; no path, the error paths included, opens a second one.
C27_OneOutboundRequest ==
    \A s \in Sessions : session[s].up.requests <= 1

C27_Witness ==
    \E s \in Sessions :
        /\ session[s].up.requests = 1
        /\ session[s].up.state = "failed"
        /\ ~session[s].up.responded
        /\ session[s].res.finished

\* the message of the exception proxySSE raises on a request, <<>> when it
\* raises none
Thrown(req) ==
    LET target == SearchParamUrl(req.url)
        t == ParseURL(target.value)
    IN  IF ~BaseParses(Header(req.headers, "host")) THEN <<"Invalid URL">>
        ELSE IF Falsy(target) THEN <<>>
        ELSE IF ~t.ok THEN <<"Invalid URL">>
        ELSE IF t.protocol \notin {"http:", "https:"}
        THEN <<"Protocol not supported">>
        ELSE <<>>

\* C28: an exception raised while the proxied exchange is built is answered
\* 500 {error: "proxy error", message: <detail>} on a response nothing was
\* written to, and the envelope is never written onto a response whose head
\* or bytes are already committed.
C28_ExceptionIs500 ==
    \A s \in Sessions :
        /\ /\ session[s].pc = "done"
           /\ session[s].req.method \notin {"OPTIONS", "HEAD"}
           /\ StartsWith(session[s].req.url, <<"/sse">>)
           /\ Thrown(session[s].req) # <<>>
           => /\ session[s].res.statusCode = 500
              /\ session[s].res.body =
                   << JSONstringify(<<"error", "proxy error", "message",
                                      Thrown(session[s].req)[1]>>) >>
              /\ <<"Content-Type", Str("application/json")>> \in session[s].res.head
              /\ session[s].res.finished
        /\ \A i \in 1..Len(session[s].res.body) :
              Includes(session[s].res.body[i], "proxy error") =>
                  /\ i = 1
                  /\ session[s].res.statusCode = 500
        /\ session[s].res.statusCode = 500 =>
              /\ session[s].res.writeHeadCalls = 1
              /\ session[s].res.endCalls = 1
              /\ session[s].res.lateWrites = 0

C28_Witness ==
    \E s \in Sessions :
        /\ session[s].pc = "done"
        /\ session[s].req.method = "GET"
        /\ Header(session[s].req.headers, "host") = <<"[">>
        /\ StartsWith(session[s].req.url, <<"/sse">>)
        /\ session[s].res.statusCode = 500
        /\ session[s].res.body =
             << JSONstringify(<<"error", "proxy error", "message", "Invalid URL">>) >>

\* C29: concurrent relay sessions are independent: an event of one session
\* leaves every other session's state, written chunks and committed status
\* unchanged, under every interleaving.
C29_SessionsIndependent ==
    [][\A s \in Sessions :
          session'[s] # session[s] =>
              \A o \in Sessions \ {s} :
                  /\ session'[o] = session[o]
                  /\ session'[o].res.body = session[o].res.body
                  /\ session'[o].res.statusCode = session[o].res.statusCode]_vars

C29_Witness ==
    /\ session["s1"].pc = "relay" /\ session["s2"].pc = "relay"
    /\ session["s1"].up.state = "head"
    /\ session["s1"].res.body = << <<"a">> >>
    /\ session["s1"].res.statusCode = 200
    /\ ~session["s1"].res.finished
    /\ session["s2"].up.state = "failed"
    /\ session["s2"].res.statusCode = 502
    /\ session["s2"].callerGone

\* C30: within a relay the proxy ends the caller's response or the outbound
\* request only in the step of an upstream end-of-body, an upstream or
\* outbound error, an inbound end-of-body or a caller disconnect; a healthy
\* stream is never ended by the proxy itself.
C30_NoDeadline ==
    [][\A s \in Sessions :
          /\ session[s].pc = "relay"
          /\ \/ session'[s].res.endCalls # session[s].res.endCalls
             \/ session'[s].res.finished # session[s].res.finished
             \/ session'[s].up.endCalls # session[s].up.endCalls
          => \/ /\ session'[s].up.state # session[s].up.state
                /\ session'[s].up.state \in {"ended", "aborting", "failed"}
             \/ ~session[s].inbound.ended /\ session'[s].inbound.ended
             \/ ~session[s].callerGone /\ session'[s].callerGone]_vars

C30_Witness ==
    \E s \in Sessions :
        /\ session[s].pc = "relay"
        /\ session[s].up.state = "head"
        /\ Len(session[s].up.received) = MaxChunks
        /\ session[s].up.flushed = MaxBody
        /\ ~session[s].inbound.ended
        /\ ~session[s].callerGone
        /\ ~session[s].res.finished
        /\ session[s].res.endCalls = 0
        /\ session[s].up.endCalls = 0

\* C31: the relay propagates backpressure: while the outbound request holds
\* as many undelivered body chunks as make its write() report it full, the
\* relay takes no further chunk from the inbound request, so the chunks
\* accepted but not yet delivered stay within the high-water mark.
C31_Backpressure ==
    [][\A s \in Sessions :
          /\ session[s].pc = "relay"
          /\ Len(session[s].up.sent) - session[s].up.flushed >= HighWaterMark
          => /\ session'[s].inbound.delivered = session[s].inbound.delivered
             /\ Len(session'[s].up.sent) - session'[s].up.flushed
                   <= HighWaterMark]_vars

\* the names of the CORS response headers
AccessControlNames ==
    { "Access-Control-Allow-Origin", "Access-Control-Allow-Methods",
      "Access-Control-Allow-Headers", "Access-Control-Allow-Credentials",
      "Access-Control-Expose-Headers", "Access-Control-Max-Age" }

AccessControl(head) == {p \in head : p[1] \in AccessControlNames}

\* C32: the CORS headers of a response do not depend on the request: any two
\* answered requests, whatever their Origin and other headers, method and
\* path, carry the same Access-Control-* names and values.
C32_CorsIgnoresRequest ==
    \A a, b \in Sessions :
        session[a].res.headersSent /\ session[b].res.headersSent =>
            AccessControl(session[a].res.head) = AccessControl(session[b].res.head)

C32_Witness ==
    /\ session["s1"].up.responded /\ session["s2"].up.responded
    /\ session["s1"].req.headers = GoodHost
    /\ session["s1"].req.method = "GET"
    /\ session["s2"].req.method = "POST"
    /\ Header(session["s2"].req.headers, "origin") = Str("http://evil.test")
    /\ AccessControl(session["s1"].res.head) = CorsHeaders
    /\ AccessControl(session["s2"].res.head) = CorsHeaders

\* C33: in every relay session no body byte is written to the caller before
\* the response head is committed: a response with a body has had its single
\* writeHead.
C33_HeadBeforeBody ==
    \A s \in Sessions :
        session[s].res.body # <<>> \/ session[s].res.finished =>
            /\ session[s].res.headersSent
            /\ session[s].res.writeHeadCalls = 1

C33_Witness ==
    \E s \in Sessions :
        /\ session[s].pc = "relay"
        /\ session[s].up.state = "head"
        /\ session[s].res.body = << <<"b">>, <<"a">> >>
        /\ session[s].res.writeHeadCalls = 1
        /\ ~session[s].res.finished

\* the outbound request's 'error' listener has run and answered the caller
OutboundFailed(s) ==
    /\ session[s].up.state \in {"aborting", "failed"}
    /\ \E i \in 1..Len(session[s].res.body) :
          Includes(session[s].res.body[i], "bad gateway")

\* C34: in a POST relay, once the outbound request has failed and the caller
\* has been answered, no further inbound body chunk is written to the
\* outbound request and it is not finalized afterwards.
C34_NoWriteAfterFailure ==
    [][\A s \in Sessions :
          PostRelay(s) /\ OutboundFailed(s) =>
              /\ session'[s].up.written = session[s].up.written
              /\ session'[s].up.endCalls = session[s].up.endCalls]_vars

C36_HeadFromStatusAndType ==
    \A a, b \in Sessions :
        /\ session[a].up.responded /\ session[b].up.responded
        /\ session[a].up.ur.statusCode = session[b].up.ur.statusCode
        /\ session[a].up.ur.contentType = session[b].up.ur.contentType
        => /\ session[a].res.statusCode = session[b].res.statusCode
           /\ session[a].res.head = session[b].res.head

C36_Witness ==
    /\ session["s1"].up.responded /\ session["s2"].up.responded
    /\ session["s1"].up.ur.statusCode = 302
    /\ session["s2"].up.ur.statusCode = 302
    /\ session["s1"].up.ur.others = {}
    /\ <<"set-cookie", Str("sid=1")>> \in session["s2"].up.ur.others
    /\ session["s1"].res.head = session["s2"].res.head

\* the tools whose single query decides the call, with their handlers
QueryTools ==
    { <<"search_plans", "searchPlans">>,
      <<"get_conservation_sites", "getConservationSites">> }

\* C37: in the tool-call dispatcher an McpError raised while handling a call
\* (MethodNotFound for a name that is no advertised tool, InvalidParams for a
\* missing required argument) reaches the caller with its own code, every
\* other failure of a tool is reported as McpError InternalError, and no
\* handler runs for an unknown name.
C37_ErrorCodesKept ==
    mcp.pc = "done" /\ mcp.name # "" /\ Len(mcp.fetch) = 3 =>
        /\ mcp.reply.kind \in {"result", "McpError"}
        /\ mcp.name \notin ReadmeTools =>
              /\ mcp.reply.kind = "McpError"
              /\ mcp.reply.code = "MethodNotFound"
              /\ mcp.reply.handler = "none"
              /\ mcp.reply.fetches = 0
        /\ mcp.name = "get_plan_details" /\ ~HasArg(mcp.args, "planNumber") =>
              mcp.reply.kind = "McpError" /\ mcp.reply.code = "InvalidParams"
        /\ /\ mcp.name \in {"search_by_location", "get_building_restrictions",
                            "get_comprehensive_location_data"}
           /\ ~HasArg(mcp.args, "x") \/ ~HasArg(mcp.args, "y")
           => mcp.reply.kind = "McpError" /\ mcp.reply.code = "InvalidParams"
        /\ \A q \in QueryTools :
              mcp.name = q[1] =>
                  IF mcp.fetch[1] = "ok"
                  THEN mcp.reply.kind = "result"
                  ELSE /\ mcp.reply.kind = "McpError"
                       /\ mcp.reply.code = "InternalError"
                       /\ mcp.reply.handler = q[2]
        /\ mcp.reply.code = "InternalError" =>
              mcp.reply.fetches >= 1 /\ mcp.fetch[1] # "ok"

C37_Witness ==
    /\ mcp.pc = "done"
    /\ mcp.name = "get_plan_details"
    /\ ~HasArg(mcp.args, "planNumber")
    /\ mcp.reply.kind = "McpError"
    /\ mcp.reply.code = "InvalidParams"
    /\ mcp.reply.fetches = 0

\* C38: getComprehensiveLocationData with x and y present always returns a
\* result, having run the plans, restrictions and conservation sub-queries in
\* that order, a failed one leaving its *_error field and not stopping the
\* later ones; the call fails with InvalidParams only when x or y is missing,
\* before any sub-query.
C38_ComprehensiveNeverFails ==
    /\ mcp.pc = "done"
    /\ mcp.name = "get_comprehensive_location_data"
    => IF HasArg(mcp.args, "x") /\ HasArg(mcp.args, "y")
       THEN /\ mcp.reply.kind = "result"
            /\ mcp.reply.fetches = 3
            /\ mcp.reply.fields =
                 << <<"plans", IF mcp.fetch[1] = "ok" THEN "list" ELSE "error">>,
                    <<"restrictions", IF mcp.fetch[2] = "ok" THEN "list" ELSE "error">>,
                    <<"conservation", IF mcp.fetch[3] = "ok" THEN "list" ELSE "error">> >>
       ELSE /\ mcp.reply.kind = "McpError"
            /\ mcp.reply.code = "InvalidParams"
            /\ mcp.reply.fetches = 0

\* C39: in searchPlans of the four-tool server the limit sent to the upstream
\* service lies in 1..20 for every numeric limit argument: 10 for a missing
\* or zero limit, 1 for a limit below 1, 20 for a limit above 20, and the
\* limit itself within 1..20.
C39_LimitClamped ==
    mcp.pc = "done" /\ mcp.reply.handler = "searchPlans" /\ Len(mcp.fetch) = 1 =>
        LET sent == mcp.reply.resultRecordCount
        IN  /\ sent \in 1..20
            /\ IF ~HasArg(mcp.args, "limit") THEN sent = 10
               ELSE LET limit == Arg(mcp.args, "limit")
                    IN  CASE limit = 0  -> sent = 10
                          [] limit < 0  -> sent = 1
                          [] limit > 20 -> sent = 20
                          [] OTHER      -> sent = limit

C39_Witness ==
    /\ mcp.pc = "done"
    /\ mcp.reply.handler = "searchPlans"
    /\ HasArg(mcp.args, "limit")
    /\ Arg(mcp.args, "limit") = 1000
    /\ mcp.fetch = <<"httpError">>
    /\ mcp.reply.resultRecordCount = 20

====
